---- MODULE Spec2Model ----
(***************************************************************************)
(* A model of bader-db: the shared cache (src/cache), its randomized purge *)
(* loop and the tasks that use it concurrently; the RESP parser            *)
(* (src/resp) and the loop of one connection (src/server).                 *)
(***************************************************************************)
EXTENDS Integers, Sequences, FiniteSets, TLC

\* ------------------------------------------------------------------ bounds
\* The monotonic clock (Instant::now()) runs over 0..MaxTime.
MaxTime == 1
\* Largest configured sample size the purge is checked with (SpecPurge).
MaxSample == 2

\* ------------------------------------------------------------------ domains
\* Keys in the iteration order of the BTreeMap (ascending String order).
KeyOrder == <<"k1", "k2", "k3">>
Keys == {KeyOrder[i] : i \in DOMAIN KeyOrder}
\* The keys the connection tasks use in the concurrent model.
ClientKeys == {"k1", "k2"}
\* One task per accepted connection, and the background purge task.
Clients == {"c1", "c2"}
PurgeTask == "purge"
\* The relative expiry durations a SET may carry, in clock units.
Durations == {0, 1}
\* Thresholds as exact fractions <<numerator, denominator>> in (0, 1].
Thresholds == {<<1, 4>>, <<1, 2>>, <<1, 1>>}

\* Option<T>: None, or Some(x).
None == <<>>
Some(x) == <<x>>

VARIABLES
    store,         \* Cache.store: BTreeMap<String, Entry> (inside the RwLock)
    now,           \* the value Instant::now() returns
    readers,       \* tasks holding a read guard of Cache.store
    sample,        \* Cache.sample
    threshold,     \* Cache.threshold, as <<numerator, denominator>>
    pc,            \* per connection task: position inside the Cache call
    key,           \* per connection task: the key argument of the call
    entry,         \* per connection task: the Entry a set has built
    last,          \* the Cache call that returned in the latest step (NoCall if none did)
    ppc,           \* purge task: position inside monitor_for_expiry / purge
    total,         \* purge: `total`
    psample,       \* purge: the per-pass `sample` = min(sample, total)
    indices,       \* purge: `indices`, the drawn index set (until the walk consumes it)
    expired_keys,  \* purge: `expired_keys`
    gone,          \* purge: `gone`
    wire,          \* bytes a client has sent that the socket has not yet handed over
    eof,           \* the client has closed its side of the socket
    buffer,        \* Connection.buffer
    written,       \* the byte strings handed to stream.write, in order
    sent,          \* the requests the client has sent, in order
    conn,          \* the connection task: "open", "closed" or "panicked"
    build,         \* the build profile: "debug" (overflow checks) or "release"
    decoded,       \* what Parser::parse_message made of the buffer (NoDecode before)
    shutdown       \* the shutdown signal has been raised

cacheVars == <<store, now, readers, sample, threshold>>
clientVars == <<pc, key, entry>>
purgeVars == <<ppc, total, psample, indices, expired_keys, gone>>
connVars == <<wire, eof, buffer, written, sent, conn>>
runVars == <<build, decoded, shutdown>>
vars == <<cacheVars, clientVars, last, purgeVars, connVars, runVars>>
NoDecode == [kind |-> "none"]

\* ------------------------------------------------------------------ Expiry, Entry
\* Expiry::none()
ExpiryNone == None
\* impl From<Duration> for Expiry: Instant::now() + duration
ExpiryFromDuration(d) == Some(now + d)
\* Mutant of is_expired: the deadline instant itself counts as expired.
is_expired_inclusive(expiration) ==
    IF expiration = None THEN FALSE ELSE expiration[1] <= now
\* Mutant of is_expired: an absent deadline counts as expired.
is_expired_none_expired(expiration) ==
    IF expiration = None THEN TRUE ELSE expiration[1] < now
\* Expiry::is_expired: instant.map(|e| e < Instant::now()).unwrap_or(false)
is_expired(expiration) ==
    IF expiration = None THEN FALSE ELSE expiration[1] < now
\* Entry::new
EntryNew(value, expiration) == [value |-> value, expiration |-> expiration]
NoEntry == [value |-> "", expiration |-> None]

\* ------------------------------------------------------------------ BTreeMap
EmptyMap == [k \in {} |-> NoEntry]
MapInsert(m, k, e) == [x \in (DOMAIN m) \cup {k} |-> IF x = k THEN e ELSE m[x]]
\* Mutant of MapRemove: the key stays bound.
MapRemoveNothing(m, k) == m
MapRemove(m, k) == [x \in (DOMAIN m) \ {k} |-> m[x]]
\* store.iter(): the keys in ascending order
MapIter(m) == SelectSeq(KeyOrder, LAMBDA k : k \in DOMAIN m)
\* Cache::len
CacheLen == Cardinality(DOMAIN store)

\* ------------------------------------------------------------------ RwLock
\* A section under the write guard contains no await and no clock read: it runs
\* as one step, which the lock admits only while no reader is inside. A read
\* guard is held from the step that takes it to the step that drops it.
write_guard_free == readers = {}

\* ------------------------------------------------------------------ results
NoRet == [kind |-> "pending", val |-> ""]
RetUnit == [kind |-> "unit", val |-> ""]
RetNone == [kind |-> "none", val |-> ""]
RetSome(v) == [kind |-> "some", val |-> v]
RetOk == [kind |-> "ok", val |-> ""]
RetErr == [kind |-> "err", val |-> ""]
RetBool(b) == [kind |-> "bool", val |-> IF b THEN "true" ELSE "false"]
NoKey == ""
NoCall == [cmd |-> "", key |-> NoKey, ret |-> NoRet]

\* ------------------------------------------------------------------ clock
Tick ==
    /\ now < MaxTime
    /\ now' = now + 1
    /\ last' = NoCall
    /\ UNCHANGED <<store, readers, sample, threshold, clientVars, purgeVars, connVars, runVars>>

\* A connection task enters a Cache method with key k (and entry e for a set).
Call(t, k, e, p) ==
    /\ pc[t] = "idle"
    /\ pc' = [pc EXCEPT ![t] = p]
    /\ key' = [key EXCEPT ![t] = k]
    /\ entry' = [entry EXCEPT ![t] = e]
    /\ last' = NoCall
\* A connection task returns r from Cache method c.
Return(t, c, r) ==
    /\ pc' = [pc EXCEPT ![t] = "idle"]
    /\ key' = [key EXCEPT ![t] = NoKey]
    /\ entry' = [entry EXCEPT ![t] = NoEntry]
    /\ last' = [cmd |-> c, key |-> key[t], ret |-> r]
Goto(t, p) ==
    /\ pc' = [pc EXCEPT ![t] = p]
    /\ last' = NoCall
    /\ UNCHANGED <<key, entry>>

\* ------------------------------------------------------------------ Cache::set, Cache::set_with_expiry
\* The value each connection writes.
ValueOf == [t \in Clients |-> IF t = "c1" THEN "v1" ELSE "v2"]
\* The expirations a SET can build now: none (Cache::set), or now + d.
Expirations == {ExpiryNone} \cup {ExpiryFromDuration(d) : d \in Durations}
\* Entry::new(value, e.into()), before the write guard is requested
SetCreate(t) ==
    \E k \in ClientKeys, e \in Expirations :
        /\ Call(t, k, EntryNew(ValueOf[t], e), "set_lock")
        /\ UNCHANGED <<cacheVars, purgeVars, connVars, runVars>>
\* Mutant of InsertEntry: an existing key keeps its old expiration.
InsertEntryKeepExpiry(m, k, e) ==
    IF k \in DOMAIN m THEN MapInsert(m, k, EntryNew(e.value, m[k].expiration))
    ELSE MapInsert(m, k, e)
\* store.insert(key, entry)
InsertEntry(m, k, e) == MapInsert(m, k, e)
\* let mut store = self.store.write().unwrap(); store.insert(key, entry);
SetInsert(t) ==
    /\ pc[t] = "set_lock"
    /\ write_guard_free
    /\ store' = InsertEntry(store, key[t], entry[t])
    /\ Return(t, "set", RetUnit)
    /\ UNCHANGED <<now, readers, sample, threshold, purgeVars, connVars, runVars>>

\* ------------------------------------------------------------------ Cache::get
\* let store = self.store.read().unwrap();
GetAcquire(t) ==
    \E k \in ClientKeys :
        /\ Call(t, k, NoEntry, "get_read")
        /\ readers' = readers \cup {t}
        /\ UNCHANGED <<store, now, sample, threshold, purgeVars, connVars, runVars>>
\* Mutant of GetRead: the read guard is kept while the write guard is asked for.
GetReadUpgrades(t) ==
    /\ pc[t] = "get_read"
    /\ IF key[t] \in DOMAIN store
       THEN IF ~is_expired(store[key[t]].expiration)
            THEN readers' = readers \ {t} /\ Return(t, "get", RetSome(store[key[t]].value))
            ELSE readers' = readers /\ Goto(t, "get_wlock")
       ELSE readers' = readers \ {t} /\ Return(t, "get", RetNone)
    /\ UNCHANGED <<store, now, sample, threshold, purgeVars, connVars, runVars>>
\* Mutant of GetRead: the read guard outlives the call that returns a value.
GetReadKeepsGuard(t) ==
    /\ pc[t] = "get_read"
    /\ IF key[t] \in DOMAIN store
       THEN IF ~is_expired(store[key[t]].expiration)
            THEN readers' = readers /\ Return(t, "get", RetSome(store[key[t]].value))
            ELSE readers' = readers \ {t} /\ Goto(t, "get_wlock")
       ELSE readers' = readers \ {t} /\ Return(t, "get", RetNone)
    /\ UNCHANGED <<store, now, sample, threshold, purgeVars, connVars, runVars>>
\* match store.get(key): a live entry returns its value, an absent key None;
\* an expired entry drops the read guard and goes on to ask for the write guard.
GetRead(t) ==
    /\ pc[t] = "get_read"
    /\ readers' = readers \ {t}
    /\ IF key[t] \in DOMAIN store
       THEN IF ~is_expired(store[key[t]].expiration)
            THEN Return(t, "get", RetSome(store[key[t]].value))
            ELSE Goto(t, "get_wlock")
       ELSE Return(t, "get", RetNone)
    /\ UNCHANGED <<store, now, sample, threshold, purgeVars, connVars, runVars>>
\* Mutant of GetRemove: the entry is looked at again under the write guard,
\* and one that is not expired is kept and returned.
GetRemoveRechecked(t) ==
    /\ pc[t] = "get_wlock"
    /\ write_guard_free
    /\ IF key[t] \in DOMAIN store /\ ~is_expired(store[key[t]].expiration)
       THEN store' = store /\ Return(t, "get", RetSome(store[key[t]].value))
       ELSE store' = MapRemove(store, key[t]) /\ Return(t, "get", RetNone)
    /\ UNCHANGED <<now, readers, sample, threshold, purgeVars, connVars, runVars>>
\* let mut store = self.store.write().unwrap(); store.remove(key); None
GetRemove(t) ==
    /\ pc[t] = "get_wlock"
    /\ write_guard_free
    /\ store' = MapRemove(store, key[t])
    /\ Return(t, "get", RetNone)
    /\ UNCHANGED <<now, readers, sample, threshold, purgeVars, connVars, runVars>>

\* ------------------------------------------------------------------ Cache::remove
\* Mutant of RemoveResult: removing an absent key succeeds too.
RemoveResultIdempotent(m, k) == [ret |-> RetOk, store |-> MapRemove(m, k)]
\* match store.get(key): Some => store.remove(key), Ok(()); None => Err
RemoveResult(m, k) ==
    IF k \in DOMAIN m THEN [ret |-> RetOk, store |-> MapRemove(m, k)]
    ELSE [ret |-> RetErr, store |-> m]
\* The whole of Cache::remove, under the write guard.
Del(t) ==
    \E k \in ClientKeys :
        /\ pc[t] = "idle"
        /\ write_guard_free
        /\ store' = RemoveResult(store, k).store
        /\ last' = [cmd |-> "remove", key |-> k,
                    ret |-> RemoveResult(store, k).ret]
        /\ UNCHANGED <<now, readers, sample, threshold, clientVars, purgeVars, connVars, runVars>>

\* ------------------------------------------------------------------ Cache::exists
\* Mutant of ExistsResult: an expired entry is reported absent and removed.
ExistsResultLazy(m, k) ==
    [found |-> k \in DOMAIN m /\ ~is_expired(m[k].expiration),
     store |-> IF k \in DOMAIN m /\ is_expired(m[k].expiration)
               THEN MapRemove(m, k) ELSE m]
\* store.contains_key(key): the answer and the map it leaves
ExistsResult(m, k) == [found |-> k \in DOMAIN m, store |-> m]
\* The whole of Cache::exists; it takes the write guard
\* (let mut store = self.store.write().unwrap()).
Exists(t) ==
    \E k \in ClientKeys :
        /\ pc[t] = "idle"
        /\ write_guard_free
        /\ store' = ExistsResult(store, k).store
        /\ last' = [cmd |-> "exists", key |-> k,
                    ret |-> RetBool(ExistsResult(store, k).found)]
        /\ UNCHANGED <<now, readers, sample, threshold, clientVars, purgeVars, connVars, runVars>>

\* ------------------------------------------------------------------ Cache::clear
\* store.clear()
ClearResult(m) == EmptyMap
\* The whole of Cache::clear, under the write guard.
Clear(t) ==
    /\ pc[t] = "idle"
    /\ write_guard_free
    /\ store' = ClearResult(store)
    /\ last' = [cmd |-> "clear", key |-> NoKey, ret |-> RetUnit]
    /\ UNCHANGED <<now, readers, sample, threshold, clientVars, purgeVars, connVars, runVars>>

\* ------------------------------------------------------------------ Cache::purge
Min(a, b) == IF a <= b THEN a ELSE b
SetMin(S) == CHOOSE x \in S : \A y \in S : x <= y
\* Iterating a BTreeSet<usize>: ascending
RECURSIVE Ascending(_)
Ascending(S) == IF S = {} THEN <<>> ELSE <<SetMin(S)>> \o Ascending(S \ {SetMin(S)})
\* The index sets the draw loop can end with: `n` distinct values of 0..total-1
\* (while indices.len() < sample { indices.insert(rng.gen_range(0..total)) }).
IndexSets(n, tot) == {I \in SUBSET (0..(tot - 1)) : Cardinality(I) = n}
\* Mutant of WalkOffset: the iterator is shifted by the whole distance.
WalkOffsetWhole(idx, prev) == IF idx - prev >= 0 THEN idx - prev ELSE 0
\* idx.checked_sub(prev).and_then(|idx| idx.checked_sub(1)).unwrap_or(0)
WalkOffset(idx, prev) == IF idx - prev >= 1 THEN idx - prev - 1 ELSE 0
\* The walk of the index list over one iterator: the 0-based positions of the
\* entries that iter.next() yields, one per index. `pos` is the position the
\* iterator stands at, `prev` the index handled before (0 at first).
RECURSIVE Walk(_, _, _)
Walk(idxs, prev, pos) ==
    IF idxs = <<>> THEN <<>>
    ELSE LET at == pos + WalkOffset(Head(idxs), prev)
         IN  <<at>> \o Walk(Tail(idxs), Head(idxs), at + 1)
\* The keys one pass fetches from map m for the drawn index set I, in order.
\* A position past the end is what makes iter.next().unwrap() panic.
WalkPositions(I) == Walk(Ascending(I), 0, 0)
WalkPanics(m, I) ==
    \E i \in DOMAIN WalkPositions(I) : WalkPositions(I)[i] >= Len(MapIter(m))
WalkKeys(m, I) ==
    [i \in DOMAIN WalkPositions(I) |-> MapIter(m)[WalkPositions(I)[i] + 1]]
\* Mutant of Marked: every fetched key is marked, expired or not.
MarkedAll(m, ks) == ks
\* if !entry.expiration().is_expired() { continue } expired_keys.push(key)
Marked(m, ks) == SelectSeq(ks, LAMBDA k : is_expired(m[k].expiration))
\* Mutant of PurgeContinues: the loop goes on whenever the map was not empty.
PurgeContinuesAlways(g, s, th) == TRUE
\* Mutant of PurgeContinues: the loop goes on only above the threshold.
PurgeContinuesAbove(g, s, th) == g * th[2] > s * th[1]
\* !((gone as f64) < (sample as f64 * threshold))
PurgeContinues(g, s, th) == ~(g * th[2] < s * th[1])
SeqToSet(q) == {q[i] : i \in DOMAIN q}
\* Mutant of RemoveAll: the removal phase clears the whole map.
RemoveEverything(m, ks) == EmptyMap
\* Mutant of RemoveAll: a key is removed only if its entry is expired now.
RemoveAllRechecked(m, ks) ==
    [x \in {y \in DOMAIN m : ~(y \in SeqToSet(ks) /\ is_expired(m[y].expiration))} |-> m[x]]
\* for key in &expired_keys { store.remove(key) }
RemoveAll(m, ks) == [x \in (DOMAIN m) \ SeqToSet(ks) |-> m[x]]

PurgeLocals(p, tot, s, ix, ek, g) ==
    /\ ppc' = p
    /\ total' = tot
    /\ psample' = s
    /\ indices' = ix
    /\ expired_keys' = ek
    /\ gone' = g
\* Shutdown::is_shutdown() of the task's subscriber: the shutdown signal has
\* been raised (the coordinator is a one-shot broadcast that each subscriber
\* observes on its next check).
is_shutdown == shutdown
\* Mutant of LoopHead: the loop test never sees the signal.
LoopHeadDeaf == "idle"
\* monitor_for_expiry, cache built with Some(shutdown): the test of the while
\* loop, made when purge() has returned; "idle" awaits the next tick.
LoopHead == IF is_shutdown THEN "exited" ELSE "idle"
\* monitor_for_expiry: the interval fires and purge() is entered (total = 0).
\* `start`, `locked` and `removed` only feed the log lines and are left out.
MonitorTick ==
    /\ last' = NoCall
    /\ ppc = "idle"
    /\ PurgeLocals("purge_lock", 0, 0, {}, <<>>, 0)
    /\ UNCHANGED <<cacheVars, clientVars, connVars, runVars>>
\* loop { let store = self.store.read().unwrap();
PurgeAcquireRead ==
    /\ last' = NoCall
    /\ ppc = "purge_lock"
    /\ readers' = readers \cup {PurgeTask}
    /\ PurgeLocals("purge_draw", total, 0, {}, <<>>, 0)
    /\ UNCHANGED <<store, now, sample, threshold, clientVars, connVars, runVars>>
\* if store.is_empty() { break }; total = store.len(); sample = min(sample, total);
\* gone = 0; the draw of `sample` distinct indices
PurgeDraw ==
    /\ last' = NoCall
    /\ ppc = "purge_draw"
    /\ IF DOMAIN store = {}
       THEN /\ readers' = readers \ {PurgeTask}
            /\ PurgeLocals(LoopHead, 0, 0, {}, <<>>, 0)
       ELSE /\ readers' = readers
            /\ \E I \in IndexSets(Min(sample, CacheLen), CacheLen) :
                  PurgeLocals("purge_walk", CacheLen, Min(sample, CacheLen),
                              I, <<>>, 0)
    /\ UNCHANGED <<store, now, sample, threshold, clientVars, connVars, runVars>>
\* The walk of the index list, marking the expired keys; drop(store) after it.
PurgeWalk ==
    /\ last' = NoCall
    /\ ppc = "purge_walk"
    /\ readers' = readers \ {PurgeTask}
    /\ IF WalkPanics(store, indices)
       THEN PurgeLocals("panicked", total, psample, {}, <<>>, 0)
       ELSE PurgeLocals("purge_wlock", total, psample, {},
                        Marked(store, WalkKeys(store, indices)),
                        Len(Marked(store, WalkKeys(store, indices))))
    /\ UNCHANGED <<store, now, sample, threshold, clientVars, connVars, runVars>>
\* The removal phase under the write guard, and the loop's exit test.
PurgeRemove ==
    /\ last' = NoCall
    /\ ppc = "purge_wlock"
    /\ write_guard_free
    /\ store' = RemoveAll(store, expired_keys)
    /\ IF PurgeContinues(gone, psample, threshold)
       THEN PurgeLocals("purge_lock", total, 0, {}, <<>>, 0)
       ELSE PurgeLocals(LoopHead, 0, 0, {}, <<>>, 0)
    /\ UNCHANGED <<now, readers, sample, threshold, clientVars, connVars, runVars>>

\* ------------------------------------------------------------------ the concurrent cache
\* The sample size and threshold the concurrent model runs with.
SpecSample == 1
SpecThreshold == <<1, 2>>
Init ==
    /\ store = EmptyMap
    /\ now = 0
    /\ readers = {}
    /\ sample = SpecSample
    /\ threshold = SpecThreshold
    /\ pc = [t \in Clients |-> "idle"]
    /\ key = [t \in Clients |-> NoKey]
    /\ entry = [t \in Clients |-> NoEntry]
    /\ last = NoCall
    /\ ppc = "idle"
    /\ total = 0
    /\ psample = 0
    /\ indices = {}
    /\ expired_keys = <<>>
    /\ gone = 0
    /\ wire = <<>>
    /\ eof = FALSE
    /\ buffer = <<>>
    /\ written = <<>>
    /\ sent = <<>>
    /\ conn = "open"
    /\ build = "release"
    /\ decoded = NoDecode
    /\ shutdown = FALSE

ClientStep(t) ==
    \/ SetCreate(t)
    \/ SetInsert(t)
    \/ GetAcquire(t)
    \/ GetRead(t)
    \/ GetRemove(t)
    \/ Del(t)
    \/ Exists(t)
    \/ Clear(t)
PurgeStep ==
    \/ MonitorTick
    \/ PurgeAcquireRead
    \/ PurgeDraw
    \/ PurgeWalk
    \/ PurgeRemove
Next ==
    \/ \E t \in Clients : ClientStep(t)
    \/ PurgeStep
    \/ Tick
Spec == Init /\ [][Next]_vars

\* One connection and the purge task under a fair lock and a fair scheduler:
\* a task inside a read section goes on to leave it, a request for the read
\* guard is granted, and a request for the write guard is granted if the
\* lock is free again and again.
LockClients == {"c1"}
NextLock ==
    \/ \E t \in LockClients : ClientStep(t)
    \/ PurgeStep
    \/ Tick
SpecLock == Init /\ [][NextLock]_vars
FairSpecLock ==
    /\ SpecLock
    /\ \A t \in LockClients :
           WF_vars(GetRead(t)) /\ SF_vars(SetInsert(t)) /\ SF_vars(GetRemove(t))
    /\ WF_vars(PurgeAcquireRead \/ PurgeDraw \/ PurgeWalk)
    /\ SF_vars(PurgeRemove)

\* ------------------------------------------------------------------ purge on its own
\* One purge task and the clock, no connection task: the map, the clock, the
\* sample size and the threshold are drawn at the start. A deadline lies at
\* most one duration after the clock, as the SETs that built the map left it.
PurgeEntries(t) ==
    {EntryNew("v1", e) : e \in {ExpiryNone} \cup {Some(i) : i \in 0..(t + 1)}}
PurgeStores(t) == UNION {[D -> PurgeEntries(t)] : D \in SUBSET Keys}
InitPurge ==
    /\ now \in 0..MaxTime
    /\ store \in PurgeStores(now)
    /\ readers = {}
    /\ sample \in 1..MaxSample
    /\ threshold \in Thresholds
    /\ pc = [t \in Clients |-> "idle"]
    /\ key = [t \in Clients |-> NoKey]
    /\ entry = [t \in Clients |-> NoEntry]
    /\ last = NoCall
    /\ ppc = "idle"
    /\ total = 0
    /\ psample = 0
    /\ indices = {}
    /\ expired_keys = <<>>
    /\ gone = 0
    /\ wire = <<>>
    /\ eof = FALSE
    /\ buffer = <<>>
    /\ written = <<>>
    /\ sent = <<>>
    /\ conn = "open"
    /\ build = "release"
    /\ decoded = NoDecode
    /\ shutdown = FALSE
NextPurge ==
    \/ PurgeStep
    \/ Tick
SpecPurge == InitPurge /\ [][NextPurge]_vars
\* The background task alone, for ever: the interval keeps firing and purge()
\* holds no await point, so the task's next step is always taken (WF); the
\* indices come from a uniform random generator, so every index set that can
\* be drawn is drawn again and again (SF per index set).
FairSpecMonitor ==
    /\ SpecPurge
    /\ WF_vars(PurgeStep)
    /\ \A I \in SUBSET (0..(Len(KeyOrder) - 1)) : SF_vars(PurgeDraw /\ indices' = I)

\* ------------------------------------------------------------------ the purge task and the shutdown signal
\* run_server: ctrl_c completes and notify_shutdown is dropped, which raises
\* the signal for every subscriber.
RaiseShutdown ==
    /\ last' = NoCall
    /\ ~shutdown
    /\ shutdown' = TRUE
    /\ UNCHANGED <<cacheVars, clientVars, purgeVars, connVars, build, decoded>>
NextShutdown ==
    \/ PurgeStep
    \/ Tick
    \/ RaiseShutdown
SpecShutdown == InitPurge /\ [][NextShutdown]_vars
\* The interval keeps firing and purge() holds no await point, so the task's
\* next step is always taken.
FairSpecShutdown == SpecShutdown /\ WF_vars(PurgeStep)

\* ------------------------------------------------------------------ connections that fail
\* How a connection task ends in failure: handle_connection breaks out of its
\* loop (read error, decode error, Err from handle_request), or the task
\* panics (ECHO without argument, Value::encode of an array, a deadline past
\* the range of Instant); tokio::spawn confines a panic to its own task.
Failures == {"closed", "panicked"}
\* Mutant of FailPoints: a task can also fail while it holds the read guard.
FailPointsHolding == {"idle", "get_read"}
\* Where the task stands when it fails: reading, decoding, dispatching,
\* building the entry or writing the response, all outside a guarded section
\* (between read()/write() and the drop of the guard the Cache methods only
\* look up, insert and remove).
FailPoints == {"idle"}
Fail(t) ==
    \E how \in Failures :
        /\ pc[t] \in FailPoints
        /\ pc' = [pc EXCEPT ![t] = how]
        /\ last' = NoCall
        /\ UNCHANGED <<key, entry, cacheVars, purgeVars, connVars, runVars>>
NextIsolation ==
    \/ \E t \in Clients : ClientStep(t)
    \/ \E t \in Clients : Fail(t)
    \/ PurgeStep
    \/ Tick
SpecIsolation == Init /\ [][NextIsolation]_vars

\* ------------------------------------------------------------------ purge among calls that insert nothing
\* The connection that runs next to the purge task here.
QuietClients == {"c1"}
\* The purge task next to a connection that only reads and removes (GET,
\* DEL, EXISTS, CLEAR), from any map.
QuietStep(t) ==
    \/ GetAcquire(t)
    \/ GetRead(t)
    \/ GetRemove(t)
    \/ Del(t)
    \/ Exists(t)
    \/ Clear(t)
NextQuiet ==
    \/ \E t \in QuietClients : QuietStep(t)
    \/ PurgeStep
    \/ Tick
SpecQuiet == InitPurge /\ [][NextQuiet]_vars
\* purge() holds no await point, so its thread keeps running (WF); a writer
\* waiting on the RwLock is granted the guard if the lock is free again and
\* again (SF).
FairSpecQuiet == SpecQuiet /\ WF_vars(PurgeStep) /\ SF_vars(PurgeRemove)

\* ------------------------------------------------------------------ resp::value, resp::parser
\* A byte is a one-character string; a buffer or a String is a sequence of
\* bytes.
CARRIAGE_RETURN == "\r"
NEWLINE == "\n"
CRLF == <<CARRIAGE_RETURN, NEWLINE>>
Digits == <<"0", "1", "2", "3", "4", "5", "6", "7", "8", "9">>
IsDigit(b) == \E i \in DOMAIN Digits : Digits[i] = b
DigitValue(b) == (CHOOSE i \in DOMAIN Digits : Digits[i] = b) - 1
RECURSIVE DigitsToNat(_)
DigitsToNat(s) ==
    IF s = <<>> THEN 0
    ELSE DigitsToNat(SubSeq(s, 1, Len(s) - 1)) * 10 + DigitValue(s[Len(s)])
RECURSIVE NatToDigits(_)
NatToDigits(n) ==
    IF n < 10 THEN <<Digits[n + 1]>>
    ELSE NatToDigits(n \div 10) \o <<Digits[(n % 10) + 1]>>
\* A string literal of the source, kept as one unit of text.
Text(t) == <<t>>

\* enum Value
Null == [type |-> "Null"]
SimpleString(str) == [type |-> "SimpleString", str |-> str]
Integer(str) == [type |-> "Integer", str |-> str]
Error(msg) == [type |-> "Error", str |-> msg]
BulkString(str) == [type |-> "BulkString", str |-> str]
Array(items) == [type |-> "Array", items |-> items]

\* Result<(Value, usize)>, and a panic of the task
ParseOk(v, n) == [kind |-> "ok", value |-> v, len |-> n]
ParseErr(msg) == [kind |-> "err", value |-> Null, len |-> 0, msg |-> msg]
ParsePanic == [kind |-> "panic", value |-> Null, len |-> 0]

\* for i in 1..buffer.len(): buffer[i-1] == '\r' && buffer[i] == '\n'
\*   => Some((&buffer[0..(i-1)], i+1))
RECURSIVE FirstCrlf(_, _)
FirstCrlf(buf, j) ==
    IF j > Len(buf) THEN 0
    ELSE IF buf[j - 1] = CARRIAGE_RETURN /\ buf[j] = NEWLINE THEN j
    ELSE FirstCrlf(buf, j + 1)
LineUpTo(buf, j) ==
    IF j = 0 THEN None ELSE Some([line |-> SubSeq(buf, 1, j - 2), len |-> j])
read_until_crlf(buf) == LineUpTo(buf, FirstCrlf(buf, 2))
\* parse_string(bytes)?.parse::<i64>()
parse_integer(bytes) ==
    LET signed == bytes # <<>> /\ bytes[1] \in {"-", "+"}
        body == IF signed THEN Tail(bytes) ELSE bytes
    IN  IF body # <<>> /\ \A i \in DOMAIN body : IsDigit(body[i])
        THEN [ok |-> TRUE,
              int |-> IF signed /\ bytes[1] = "-" THEN 0 - DigitsToNat(body)
                      ELSE DigitsToNat(body)]
        ELSE [ok |-> FALSE, int |-> 0]
SimpleStringAt(r) ==
    IF r = None THEN ParseErr("Error in decoding simple string")
    ELSE ParseOk(SimpleString(r[1].line), r[1].len + 1)
decode_simple_string(buf) == SimpleStringAt(read_until_crlf(Tail(buf)))
IntegerAt(r) ==
    IF r = None THEN ParseErr("Error in decoding simple string")
    ELSE ParseOk(Integer(r[1].line), r[1].len + 1)
decode_integer(buf) == IntegerAt(read_until_crlf(Tail(buf)))
\* end_of_bulk = bytes_consumed + (bulk_length as usize), end_of_bulk_line =
\* end_of_bulk + 2, in 64-bit unsigned arithmetic. A negative length becomes
\* 2^64 + length: a sum that passes 2^64 panics in a debug build and wraps in
\* a release build, where a slice whose bounds cross or leave the buffer
\* panics in turn; a sum that stays below 2^64 is beyond every buffer.
NegativeBulk(buf, end_of_bulk) ==
    IF end_of_bulk >= 0
    THEN IF build = "debug" THEN ParsePanic
         ELSE IF end_of_bulk + 2 <= Len(buf) THEN ParsePanic
         ELSE ParseErr("Error in decoding simple array")
    ELSE IF end_of_bulk + 2 >= 0 THEN ParsePanic
    ELSE ParseErr("Error in decoding simple array")
BulkOfLength(buf, bulk_length, bytes_consumed) ==
    IF ~bulk_length.ok THEN ParseErr("Could not parse integer")
    ELSE IF bulk_length.int < 0
    THEN NegativeBulk(buf, bytes_consumed + bulk_length.int)
    ELSE IF bytes_consumed + bulk_length.int + 2 <= Len(buf)
    THEN ParseOk(BulkString(SubSeq(buf, bytes_consumed + 1,
                                   bytes_consumed + bulk_length.int)),
                 bytes_consumed + bulk_length.int + 2)
    ELSE ParseErr("Error in decoding simple array")
BulkAt(buf, r) ==
    IF r = None THEN ParseErr("Error in decoding simple array")
    ELSE BulkOfLength(buf, parse_integer(r[1].line), r[1].len + 1)
decode_bulk_string(buf) == BulkAt(buf, read_until_crlf(Tail(buf)))
RECURSIVE parse_message(_)
RECURSIVE decode_items(_, _, _, _)
\* Ok((v, len)) => items.push(v), bytes_consumed += len; Err => return Err
ItemParsed(buf, n, bytes_consumed, items, m) ==
    IF m.kind = "ok"
    THEN decode_items(buf, n - 1, bytes_consumed + m.len, Append(items, m.value))
    ELSE IF m.kind = "panic" THEN ParsePanic
    ELSE ParseErr("Error in decoding simple array")
\* for _ in 0..array_length { parse_message(&buffer[bytes_consumed..]) ... }
decode_items(buf, n, bytes_consumed, items) ==
    IF n <= 0 THEN ParseOk(Array(items), bytes_consumed)
    ELSE ItemParsed(buf, n, bytes_consumed, items,
                    parse_message(SubSeq(buf, bytes_consumed + 1, Len(buf))))
ArrayOfLength(buf, array_length, bytes_consumed) ==
    IF ~array_length.ok THEN ParseErr("Could not parse integer")
    ELSE decode_items(buf, array_length.int, bytes_consumed, <<>>)
ArrayAtOffByOne(buf, r) ==
    IF r = None THEN ParseErr("Error in decoding simple array")
    ELSE ArrayOfLength(buf, parse_integer(r[1].line), r[1].len)
ArrayAt(buf, r) ==
    IF r = None THEN ParseErr("Error in decoding simple array")
    ELSE ArrayOfLength(buf, parse_integer(r[1].line), r[1].len + 1)
decode_array(buf) == ArrayAt(buf, read_until_crlf(Tail(buf)))
\* match buffer[0] as char: indexing an empty buffer panics
parse_message(buf) ==
    IF buf = <<>> THEN ParsePanic
    ELSE IF buf[1] = "+" THEN decode_simple_string(buf)
    ELSE IF buf[1] = ":" THEN decode_integer(buf)
    ELSE IF buf[1] = "*" THEN decode_array(buf)
    ELSE IF buf[1] = "$" THEN decode_bulk_string(buf)
    ELSE ParseErr("unrecognised message type")
\* impl From<&mut BytesMut> for Value
ValueOfParse(m) ==
    IF m.kind = "ok" THEN m
    ELSE IF m.kind = "panic" THEN ParsePanic
    ELSE ParseOk(Error(Text("error in parsing")), 0)
ValueFrom(buf) == ValueOfParse(parse_message(buf))
\* Value::encode; encoding an Array panics (None here)
encode(v) ==
    IF v.type = "Null" THEN Some(<<"$", "-", "1">> \o CRLF)
    ELSE IF v.type = "SimpleString" THEN Some(<<"+">> \o v.str \o CRLF)
    ELSE IF v.type = "Integer" THEN Some(<<":">> \o v.str \o CRLF)
    ELSE IF v.type = "Error" THEN Some(<<"-">> \o v.str \o CRLF)
    ELSE IF v.type = "BulkString"
    THEN Some(<<"$">> \o NatToDigits(Len(v.str)) \o CRLF \o v.str \o CRLF)
    ELSE None

\* ------------------------------------------------------------------ server::handler
Upper == <<"A", "B", "C", "D", "E", "F", "G", "H", "I", "J", "K", "L", "M",
           "N", "O", "P", "Q", "R", "S", "T", "U", "V", "W", "X", "Y", "Z">>
Lower == <<"a", "b", "c", "d", "e", "f", "g", "h", "i", "j", "k", "l", "m",
           "n", "o", "p", "q", "r", "s", "t", "u", "v", "w", "x", "y", "z">>
to_ascii_lowercase_identity(str) == str
to_ascii_lowercase(str) ==
    [i \in DOMAIN str |->
        IF \E j \in DOMAIN Upper : Upper[j] = str[i]
        THEN Lower[CHOOSE j \in DOMAIN Upper : Upper[j] = str[i]]
        ELSE str[i]]
\* impl From<&str> for Command
CommandFrom(str) ==
    IF str = <<"p", "i", "n", "g">> THEN "PING"
    ELSE IF str = <<"e", "c", "h", "o">> THEN "ECHO"
    ELSE IF str = <<"g", "e", "t">> THEN "Get"
    ELSE IF str = <<"s", "e", "t">> THEN "SET"
    ELSE IF str = <<"d", "e", "l">> THEN "DELETE"
    ELSE IF str = <<"e", "x", "i", "s", "t", "s">> THEN "EXISTS"
    ELSE "Uninitialized"
\* impl From<&str> for ExpiryFormat
ExpiryFormatFrom(str) ==
    IF str = <<"e", "x">> THEN "EX"
    ELSE IF str = <<"p", "x">> THEN "PX"
    ELSE "Uninitialized"
\* impl From<u64> for Expiry: Duration::from_millis(millis); the clock counts
\* milliseconds.
ExpiryFromMillisNever(millis) == ExpiryNone
ExpiryFromMillis(millis) == ExpiryFromDuration(millis)
\* impl From<(u64, &String)> for Expiry
ExpiryFromPairCaseSensitive(amount, format) ==
    LET expiry_type == ExpiryFormatFrom(format)
    IN  IF expiry_type = "PX" THEN ExpiryFromDuration(amount)
        ELSE IF expiry_type = "EX" THEN ExpiryFromDuration(amount * 1000)
        ELSE ExpiryNone
ExpiryFromPair(amount, format) ==
    LET expiry_type == ExpiryFormatFrom(to_ascii_lowercase(format))
    IN  IF expiry_type = "PX" THEN ExpiryFromDuration(amount)
        ELSE IF expiry_type = "EX" THEN ExpiryFromDuration(amount * 1000)
        ELSE ExpiryNone
\* amount.parse::<u64>()
parse_u64(bytes) ==
    LET body == IF bytes # <<>> /\ bytes[1] = "+" THEN Tail(bytes) ELSE bytes
    IN  IF body # <<>> /\ \A i \in DOMAIN body : IsDigit(body[i])
        THEN [ok |-> TRUE, int |-> DigitsToNat(body)]
        ELSE [ok |-> FALSE, int |-> 0]

\* Cache::get run from its first line to its return with no other task in
\* between.
GetResult(m, k) ==
    IF k \in DOMAIN m
    THEN IF ~is_expired(m[k].expiration)
         THEN [ret |-> RetSome(m[k].value), store |-> m]
         ELSE [ret |-> RetNone, store |-> MapRemove(m, k)]
    ELSE [ret |-> RetNone, store |-> m]

\* What handling a request comes to: a response and the map after it, an Err
\* (the connection loop breaks) or a panic of the task.
HandlerOk(response, m) == [kind |-> "ok", response |-> response, store |-> m]
HandlerErr(m) == [kind |-> "err", response |-> Null, store |-> m]
HandlerPanic(m) == [kind |-> "panic", response |-> Null, store |-> m]
OK == SimpleString(<<"O", "K">>)
IsBulk(args, i) == Len(args) >= i /\ args[i].type = "BulkString"
handle_get(args, m) ==
    IF IsBulk(args, 1)
    THEN LET g == GetResult(m, args[1].str)
         IN  HandlerOk(IF g.ret.kind = "some" THEN SimpleString(g.ret.val) ELSE Null,
                       g.store)
    ELSE HandlerOk(Error(Text("GET requires one argument")), m)
handle_set_with_expiry(k, value, amount, expiry_format, m) ==
    IF parse_u64(amount).ok
    THEN HandlerOk(OK,
            InsertEntry(m, k,
                EntryNew(value,
                    IF expiry_format = None
                    THEN ExpiryFromMillis(parse_u64(amount).int)
                    ELSE ExpiryFromPair(parse_u64(amount).int, expiry_format[1]))))
    ELSE HandlerOk(Error(Text("Unsupported expiry format")), m)
handle_set(args, m) ==
    IF IsBulk(args, 1) /\ IsBulk(args, 2)
    THEN IF IsBulk(args, 3) /\ IsBulk(args, 4)
         THEN IF ExpiryFormatFrom(args[3].str) # "Uninitialized"
              THEN handle_set_with_expiry(args[1].str, args[2].str, args[4].str,
                                          Some(args[3].str), m)
              ELSE handle_set_with_expiry(args[1].str, args[2].str, args[4].str,
                                          None, m)
         ELSE HandlerOk(OK, InsertEntry(m, args[1].str,
                                        EntryNew(args[2].str, ExpiryNone)))
    ELSE HandlerOk(Error(Text("SET requires two or four arguments")), m)
handle_delete(args, m) ==
    IF IsBulk(args, 1)
    THEN LET r == RemoveResult(m, args[1].str)
         IN  HandlerOk(IF r.ret.kind = "ok" THEN OK
                       ELSE Error(Text("Error while deleting: ")), r.store)
    ELSE HandlerOk(Error(Text("DEL requires one argument")), m)
handle_exists(args, m) ==
    IF IsBulk(args, 1)
    THEN LET r == ExistsResult(m, args[1].str)
         IN  HandlerOk(IF r.found THEN SimpleString(<<"t", "r", "u", "e">>)
                       ELSE SimpleString(<<"f", "a", "l", "s", "e">>), r.store)
    ELSE HandlerOk(Error(Text("EXISTS requires one argument")), m)
\* Command::ECHO => args.first().unwrap().clone()
echo_first_arg_checked(args, m) ==
    IF args = <<>> THEN HandlerOk(Error(Text("ECHO requires one argument")), m)
    ELSE HandlerOk(args[1], m)
echo_first_arg(args, m) ==
    IF args = <<>> THEN HandlerPanic(m) ELSE HandlerOk(args[1], m)
\* Mutant of handle_request: an array that is no command is answered with
\* an Error frame.
handle_request_lenient(value, m) ==
    IF value.type # "Array" THEN HandlerErr(m)
    ELSE HandlerOk(Error(Text("not a bulk string")), m)
\* value.to_command()?, then the dispatch on the lower-cased first word
handle_request(value, m) ==
    IF value.type # "Array" THEN HandlerErr(m)
    ELSE IF value.items = <<>> \/ value.items[1].type # "BulkString"
    THEN HandlerPanic(m)
    ELSE LET first_arg == value.items[1].str
             args == Tail(value.items)
             command == CommandFrom(to_ascii_lowercase(first_arg))
         IN  IF command = "PING" THEN HandlerOk(SimpleString(<<"P", "O", "N", "G">>), m)
             ELSE IF command = "ECHO"
             THEN echo_first_arg(args, m)
             ELSE IF command = "Get" THEN handle_get(args, m)
             ELSE IF command = "SET" THEN handle_set(args, m)
             ELSE IF command = "DELETE" THEN handle_delete(args, m)
             ELSE IF command = "EXISTS" THEN handle_exists(args, m)
             ELSE HandlerOk(Error(Text("command not implemented: ") \o first_arg), m)

\* ------------------------------------------------------------------ one connection
MaxRequests == 2
\* A request is the list of its words; a client sends it as a RESP array of
\* bulk strings.
SetFooBar == << <<"S", "E", "T">>, <<"f", "o", "o">>, <<"b", "a", "r">> >>
GetFoo == << <<"G", "E", "T">>, <<"f", "o", "o">> >>
DelFoo == << <<"D", "E", "L">>, <<"f", "o", "o">> >>
Ping == << <<"P", "I", "N", "G">> >>
Requests == {SetFooBar, GetFoo, DelFoo, Ping}
RequestValue(words) == Array([i \in DOMAIN words |-> BulkString(words[i])])
RECURSIVE EncodeWords(_)
EncodeWords(words) ==
    IF words = <<>> THEN <<>>
    ELSE encode(BulkString(Head(words)))[1] \o EncodeWords(Tail(words))
EncodeRequest(words) ==
    <<"*">> \o NatToDigits(Len(words)) \o CRLF \o EncodeWords(words)

\* What one turn of the connection loop comes to on a buffer: the bytes
\* written and the map after it, or the loop's end.
Written(h, out) ==
    IF h.kind # "ok" THEN [kind |-> h.kind, out |-> <<>>, store |-> h.store]
    ELSE IF out = None THEN [kind |-> "panic", out |-> <<>>, store |-> h.store]
    ELSE [kind |-> "ok", out |-> out[1], store |-> h.store]
Handled(h) == Written(h, IF h.kind = "ok" THEN encode(h.response) ELSE None)
Parsed(v, m) ==
    Handled(IF v.kind = "panic" THEN HandlerPanic(m) ELSE handle_request(v.value, m))
Served(buf, m) == Parsed(ValueFrom(buf), m)

\* The client writes one more request to the socket.
ClientSend ==
    /\ ~eof
    /\ Len(sent) < MaxRequests
    /\ \E r \in Requests :
          /\ wire' = wire \o EncodeRequest(r)
          /\ sent' = Append(sent, r)
    /\ UNCHANGED <<eof, buffer, written, conn>>
    /\ UNCHANGED <<cacheVars, clientVars, last, purgeVars, runVars>>
\* The client closes its side of the socket.
ClientShutdown ==
    /\ ~eof
    /\ eof' = TRUE
    /\ UNCHANGED <<wire, buffer, written, sent, conn>>
    /\ UNCHANGED <<cacheVars, clientVars, last, purgeVars, runVars>>
\* One turn of the loop of handle_connection on a read that brings bytes:
\* read_buf appends what the socket hands over to Connection.buffer,
\* read_value parses a clone of the buffer from its first byte,
\* handle_request answers, write_value hands the encoded response to the
\* stream.
ServeRead ==
    /\ conn = "open"
    /\ wire # <<>>
    /\ \E n \in 1..Len(wire) :
          \E h \in {Served(buffer \o SubSeq(wire, 1, n), store)} :
              /\ buffer' = buffer \o SubSeq(wire, 1, n)
              /\ wire' = SubSeq(wire, n + 1, Len(wire))
              /\ IF h.kind = "ok"
                 THEN /\ store' = h.store
                      /\ written' = Append(written, h.out)
                      /\ conn' = conn
                 ELSE /\ conn' = (IF h.kind = "err" THEN "closed" ELSE "panicked")
                      /\ UNCHANGED <<store, written>>
    /\ UNCHANGED <<eof, sent>>
    /\ UNCHANGED <<now, readers, sample, threshold, clientVars, last, purgeVars, runVars>>
\* read_buf returns 0 bytes: read_value returns Ok(None), the loop breaks.
ServeEof ==
    /\ conn = "open"
    /\ wire = <<>>
    /\ eof
    /\ conn' = "closed"
    /\ UNCHANGED <<wire, eof, buffer, written, sent>>
    /\ UNCHANGED <<cacheVars, clientVars, last, purgeVars, runVars>>
NextConn ==
    \/ ClientSend
    \/ ClientShutdown
    \/ ServeRead
    \/ ServeEof
SpecConn == Init /\ [][NextConn]_vars

\* Connection.stream is a BufWriter of the default capacity and write_value
\* calls write on it, never flush: a write is copied into the BufWriter's
\* own buffer, which is passed on to the socket only by a later write that
\* no longer fits. The bytes still held back after the writes ws, buf being
\* held back before them.
BufWriterCapacity == 8192
RECURSIVE InBufWriter(_, _)
InBufWriter(ws, buf) ==
    IF ws = <<>> THEN buf
    ELSE IF Len(buf) + Len(Head(ws)) > BufWriterCapacity
    THEN InBufWriter(Tail(ws),
                     IF Len(Head(ws)) >= BufWriterCapacity THEN <<>> ELSE Head(ws))
    ELSE InBufWriter(Tail(ws), buf \o Head(ws))

\* ------------------------------------------------------------------ the ways out of the loop
\* What ended, or should have ended, the loop of handle_connection.
LoopEvent(c) == [cmd |-> c, key |-> NoKey, ret |-> RetErr]
\* read_buf fails: read_value returns Err through `?`, the loop breaks.
ServeReadError ==
    /\ conn = "open"
    /\ conn' = "closed"
    /\ last' = LoopEvent("read_value")
    /\ UNCHANGED <<wire, eof, buffer, written, sent>>
    /\ UNCHANGED <<cacheVars, clientVars, purgeVars, runVars>>
\* A turn of the loop whose stream.write fails: the request has been handled,
\* write_value returns Err, and the statement `write_value(response).await;`
\* drops that result, so the loop goes on.
ServeWriteError ==
    /\ conn = "open"
    /\ wire # <<>>
    /\ \E n \in 1..Len(wire) :
          \E h \in {Served(buffer \o SubSeq(wire, 1, n), store)} :
              /\ h.kind = "ok"
              /\ buffer' = buffer \o SubSeq(wire, 1, n)
              /\ wire' = SubSeq(wire, n + 1, Len(wire))
              /\ store' = h.store
    /\ last' = LoopEvent("write_value")
    /\ UNCHANGED <<eof, written, sent, conn>>
    /\ UNCHANGED <<now, readers, sample, threshold, clientVars, purgeVars, runVars>>
\* shutdown.recv() completes while the loop waits in select!: the loop breaks.
ServeShutdown ==
    /\ conn = "open"
    /\ conn' = "closed"
    /\ last' = LoopEvent("shutdown")
    /\ UNCHANGED <<wire, eof, buffer, written, sent>>
    /\ UNCHANGED <<cacheVars, clientVars, purgeVars, runVars>>
NextLoop ==
    \/ NextConn
    \/ ServeReadError
    \/ ServeWriteError
    \/ ServeShutdown
SpecLoop == Init /\ [][NextLoop]_vars

\* ------------------------------------------------------------------ first requests
\* Every accepted socket gets a Connection of its own with an empty buffer
\* and a Handler on the shared cache, so the first request of a connection
\* is parsed from the start of its buffer. The clock counts milliseconds.
Foo == <<"f", "o", "o">>
Bar == <<"b", "a", "r">>
CommandNames ==
    { <<"P", "I", "N", "G">>, <<"p", "i", "n", "g">>,
      <<"E", "C", "H", "O">>, <<"E", "c", "H", "o">>,
      <<"G", "E", "T">>, <<"g", "e", "t">>,
      <<"S", "E", "T">>, <<"s", "E", "t">>,
      <<"D", "E", "L">>, <<"d", "e", "l">>,
      <<"E", "X", "I", "S", "T", "S">>, <<"e", "x", "i", "s", "t", "s">>,
      <<"F", "L", "Y">>, <<"f", "l", "y">> }
ExpiryTags == { <<"E", "X">>, <<"e", "x">>, <<"P", "x">>, <<"p", "x">>, <<"z", "z">> }
Amounts == { <<"0">>, <<"1">>, <<"-", "1">> }
SetNames == { <<"S", "E", "T">>, <<"s", "E", "t">> }
ArgLists == { <<>>, <<Foo>>, <<Foo, Bar>> }
\* A value of two lines: the byte pair CR LF inside a bulk string.
TwoLines == <<"a">> \o CRLF \o <<"b">>
SetArgLists ==
    { <<Foo, TwoLines>>,
      <<Foo, Bar, <<"e", "x">> >>,
      <<Foo, Bar, <<"e", "x">>, <<"1">>, <<"z", "z">> >> }
    \cup { <<Foo, Bar, t, a>> : t \in ExpiryTags, a \in Amounts }
HandlerRequests ==
    { <<n>> \o a : n \in CommandNames, a \in ArgLists }
    \cup { <<n>> \o a : n \in SetNames, a \in SetArgLists }
\* Byte strings that are no request: an unknown prefix byte, a bulk string
\* cut short, an array whose length is no number, a frame that is no array.
MalformedFrames ==
    { <<"?", "o", "k">> \o CRLF,
      <<"$", "3">> \o CRLF \o <<"f", "o">>,
      <<"*", "x">> \o CRLF,
      <<"+", "P", "I", "N", "G">> \o CRLF }
\* The first turn of handle_connection on a new connection whose first read
\* brings the bytes buf, sent as the request r (<<>> when buf is no request).
FirstTurn(buf, r, h) ==
    /\ buffer' = buf
    /\ wire' = <<>>
    /\ eof' = FALSE
    /\ sent' = r
    /\ IF h.kind = "ok"
       THEN /\ store' = h.store
            /\ written' = <<h.out>>
            /\ conn' = "open"
       ELSE /\ conn' = (IF h.kind = "err" THEN "closed" ELSE "panicked")
            /\ written' = <<>>
            /\ store' = store
    /\ UNCHANGED <<now, readers, sample, threshold, clientVars, last, purgeVars, runVars>>
FirstRequest ==
    \E r \in HandlerRequests :
        FirstTurn(EncodeRequest(r), <<r>>, Served(EncodeRequest(r), store))
FirstBytes ==
    \E b \in MalformedFrames : FirstTurn(b, <<>>, Served(b, store))
\* ECHO requests whose argument is an integer, a simple string, an array.
EchoArgs ==
    { <<":", "5">> \o CRLF, <<"+", "h", "i">> \o CRLF, <<"*", "0">> \o CRLF }
EchoFrame(arg) ==
    <<"*", "2">> \o CRLF \o <<"$", "4">> \o CRLF \o <<"E", "C", "H", "O">> \o CRLF \o arg
FirstEcho ==
    \E a \in EchoArgs : FirstTurn(EchoFrame(a), <<>>, Served(EchoFrame(a), store))
\* Well-formed frames that are no command: values that are no array, the
\* empty array, arrays whose first item is no bulk string.
NonArrayFrames ==
    { <<"$", "3">> \o CRLF \o Foo \o CRLF,
      <<":", "7">> \o CRLF,
      <<"-", "n", "o">> \o CRLF }
BadArrayFrames ==
    { <<"*", "0">> \o CRLF,
      <<"*", "1">> \o CRLF \o <<":", "7">> \o CRLF,
      <<"*", "2">> \o CRLF \o <<"+", "G", "E", "T">> \o CRLF
          \o <<"$", "3">> \o CRLF \o Foo \o CRLF }
FirstShape ==
    \E b \in NonArrayFrames \cup BadArrayFrames : FirstTurn(b, <<>>, Served(b, store))
NextHandler ==
    \/ FirstRequest
    \/ FirstBytes
    \/ FirstEcho
    \/ FirstShape
    \/ Tick
SpecHandler == Init /\ [][NextHandler]_vars

\* ------------------------------------------------------------------ the cache API and expiries
\* Cache::set_with_expiry called with a bare count (format None) or a pair
\* (count, format), and Cache::get, one call at a time; the clock counts
\* milliseconds.
MaxCount == 2
ApiFormats ==
    { <<"P", "X">>, <<"p", "x">>, <<"P", "x">>, <<"E", "X">>, <<"e", "x">>,
      <<"e", "X">>, <<"X", "X">> }
ApiSet ==
    /\ \E k \in ClientKeys : \E n \in 0..MaxCount : \E f \in {None} \cup {Some(g) : g \in ApiFormats} :
          /\ store' = InsertEntry(store, k,
                         EntryNew("v1", IF f = None THEN ExpiryFromMillis(n)
                                        ELSE ExpiryFromPair(n, f[1])))
          /\ last' = [cmd |-> "set_with_expiry", key |-> k, ret |-> RetUnit,
                      amount |-> n, format |-> f]
    /\ UNCHANGED <<now, readers, sample, threshold, clientVars, purgeVars, connVars, runVars>>
ApiGet ==
    /\ \E k \in ClientKeys :
          /\ store' = GetResult(store, k).store
          /\ last' = [cmd |-> "get", key |-> k, ret |-> GetResult(store, k).ret]
    /\ UNCHANGED <<now, readers, sample, threshold, clientVars, purgeVars, connVars, runVars>>
NextExpiry ==
    \/ ApiSet
    \/ ApiGet
    \/ Tick
SpecExpiry == Init /\ [][NextExpiry]_vars

\* ------------------------------------------------------------------ the codec alone
\* Values of the five kinds Value::encode knows.
CodecValues ==
    { Null, SimpleString(<<>>), SimpleString(<<"O", "K">>), Error(<<"E", "R", "R">>),
      Integer(<<"5">>), Integer(<<"-", "7">>), BulkString(<<>>),
      BulkString(<<"h", "i">>), BulkString(<<"a">> \o CRLF \o <<"b">>) }
\* Frames of arrays: two bulk strings, an array in an array, no item.
ArrayFrames ==
    { <<"*", "2">> \o CRLF
        \o <<"$", "5">> \o CRLF \o <<"h", "e", "l", "l", "o">> \o CRLF
        \o <<"$", "5">> \o CRLF \o <<"w", "o", "r", "l", "d">> \o CRLF,
      <<"*", "2">> \o CRLF \o <<"*", "1">> \o CRLF \o <<":", "5">> \o CRLF
        \o <<"+", "O", "K">> \o CRLF,
      <<"*", "0">> \o CRLF }
\* What may follow a frame in the buffer: nothing, the start of a next frame.
Trailing == { <<>>, <<"+">>, <<"$", "2">> \o CRLF \o <<"h">> }
\* Buffers that hold no complete message.
BrokenFrames ==
    { <<"?", "o", "k">> \o CRLF, <<"$", "x">> \o CRLF, <<"*", "x">> \o CRLF,
      <<"$", "3">> \o CRLF \o <<"f", "o">>, <<"+", "O", "K">>,
      <<"*", "1">> \o CRLF, <<"*", "1">> \o CRLF \o <<"?", "x">> \o CRLF,
      <<"*", "1">> \o CRLF \o <<"$", "x">> \o CRLF,
      <<"*", "1">> \o CRLF \o <<"$", "3">> \o CRLF \o <<"f", "o">>,
      <<"$", "-", "6">> \o CRLF, <<"$", "-", "9">> \o CRLF }
CodecBuffers ==
    { encode(v)[1] \o t : v \in CodecValues, t \in Trailing }
    \cup { f \o t : f \in ArrayFrames, t \in Trailing }
    \cup BrokenFrames
InitCodec ==
    /\ store = EmptyMap
    /\ now = 0
    /\ readers = {}
    /\ sample = SpecSample
    /\ threshold = SpecThreshold
    /\ pc = [t \in Clients |-> "idle"]
    /\ key = [t \in Clients |-> NoKey]
    /\ entry = [t \in Clients |-> NoEntry]
    /\ last = NoCall
    /\ ppc = "idle"
    /\ total = 0
    /\ psample = 0
    /\ indices = {}
    /\ expired_keys = <<>>
    /\ gone = 0
    /\ wire = <<>>
    /\ eof = FALSE
    /\ buffer \in CodecBuffers
    /\ written = <<>>
    /\ sent = <<>>
    /\ conn = "open"
    /\ build \in {"debug", "release"}
    /\ decoded = NoDecode
    /\ shutdown = FALSE
\* Parser::parse_message(&buffer)
Decode ==
    /\ decoded = NoDecode
    /\ decoded' = parse_message(buffer)
    /\ UNCHANGED <<cacheVars, clientVars, last, purgeVars, connVars, build, shutdown>>
SpecCodec == InitCodec /\ [][Decode]_vars

\* ================================================================== claims

\* The responses a connection owes for the requests sent so far: each request
\* handled in turn, starting from the empty map.
RECURSIVE Replay(_, _)
Replay(reqs, m) ==
    IF reqs = <<>> THEN <<>>
    ELSE LET h == handle_request(RequestValue(Head(reqs)), m)
         IN  <<encode(h.response)[1]>> \o Replay(Tail(reqs), h.store)
\* C1: on a connection the k-th response answers the k-th request: the
\* responses written so far are, in order, the answers to the first requests
\* sent (SET foo bar then GET foo gets +OK then +bar), and once the server
\* has read every byte sent, in one read or in several, every request has its
\* response.
C1_ResponsesInOrder ==
    /\ Len(written) <= Len(sent)
    /\ \A i \in 1..Min(Len(written), Len(sent)) :
          written[i] = Replay(sent, EmptyMap)[i]
    /\ (conn = "open" /\ wire = <<>>) => Len(written) = Len(sent)
\* The deadline of k's entry has passed (deadline strictly before the clock).
Passed(k) == store[k].expiration # None /\ store[k].expiration[1] < now
\* k is bound to an entry that never expires.
NeverExpires(k) == k \in DOMAIN store /\ store[k].expiration = None
\* This step completes a SET(k), a DEL(k) or a CLEAR.
Writes(k) ==
    \/ last'.cmd \in {"set", "remove"} /\ last'.key = k
    \/ last'.cmd = "clear"
\* This step completes a GET(k).
GetReturns(k) == last'.cmd = "get" /\ last'.key = k
\* A purge pass or a GET has recorded k as expired and not yet removed it.
PendingRemoval(k) ==
    \/ ppc = "purge_wlock" /\ k \in SeqToSet(expired_keys)
    \/ \E t \in Clients : pc[t] = "get_wlock" /\ key[t] = k
\* k's binding is the same before and after the step.
Kept(k) == k \in DOMAIN store' /\ store'[k] = store[k]
\* After CLEAR the map is empty (LEN is 0), and a GET of an absent key
\* returns none.
ClearEmpties ==
    /\ last'.cmd = "clear" => (store' = EmptyMap /\ CacheLen' = 0)
    /\ \A k \in ClientKeys :
          (GetReturns(k) /\ k \notin DOMAIN store) => last'.ret = RetNone

\* C2 as claimed: a never-expiring entry under k stays, and every GET(k)
\* returns its value, in every step that is not a DEL(k), CLEAR or SET(k),
\* whatever purge and the other GET/EXISTS calls do; after CLEAR the map is
\* empty and GET returns none.
C2_AsClaimed ==
    [][/\ \A k \in ClientKeys :
             (NeverExpires(k) /\ ~Writes(k)) =>
                 /\ Kept(k)
                 /\ GetReturns(k) => last'.ret = RetSome(store[k].value)
       /\ ClearEmpties]_vars
\* C2, amended: a never-expiring entry under k that no purge pass or GET has
\* on record as expired (from the entry it replaced) stays, is not put on
\* record by any later purge pass or GET, and every GET(k) returns its value,
\* in every step that is not a DEL(k), CLEAR or SET(k); after CLEAR the map is
\* empty and GET returns none.
C2_NeverExpiringStays ==
    [][/\ \A k \in ClientKeys :
             (NeverExpires(k) /\ ~PendingRemoval(k) /\ ~Writes(k)) =>
                 /\ Kept(k)
                 /\ ~PendingRemoval(k)'
                 /\ GetReturns(k) => last'.ret = RetSome(store[k].value)
       /\ ClearEmpties]_vars
\* A GET has just returned the value of a never-expiring entry while the
\* purge task stands between its sampling and its removal phase.
C2_Witness ==
    \E k \in ClientKeys :
        /\ NeverExpires(k)
        /\ last = [cmd |-> "get", key |-> k, ret |-> RetSome(store[k].value)]
        /\ ppc = "purge_wlock"

\* C3: a GET(k) that finds, under the read guard, an entry whose deadline has
\* passed does not return a value: it goes on to take the write guard, and
\* when it returns it returns none, k is not in the map, no other key has
\* changed, and LEN is one less if k was still bound.  A GET of an absent key
\* returns none and changes nothing.
C3_LazyExpiration ==
    [][\A t \in Clients :
          /\ (pc[t] = "get_read" /\ pc'[t] # "get_read") =>
                /\ store' = store
                /\ (key[t] \in DOMAIN store /\ Passed(key[t])) =>
                      (pc'[t] = "get_wlock" /\ last' = NoCall)
                /\ key[t] \notin DOMAIN store =>
                      last' = [cmd |-> "get", key |-> key[t], ret |-> RetNone]
          /\ (pc[t] = "get_wlock" /\ pc'[t] # "get_wlock") =>
                /\ last' = [cmd |-> "get", key |-> key[t], ret |-> RetNone]
                /\ key[t] \notin DOMAIN store'
                /\ DOMAIN store' = DOMAIN store \ {key[t]}
                /\ \A j \in DOMAIN store' : store'[j] = store[j]
                /\ key[t] \in DOMAIN store => CacheLen' = CacheLen - 1]_vars
\* A GET has found an expired entry under the read guard and stands before
\* the write guard, the entry still bound next to another one.
C3_Witness ==
    \E t \in Clients :
        /\ pc[t] = "get_wlock"
        /\ key[t] \in DOMAIN store
        /\ Passed(key[t])
        /\ CacheLen = 2

\* k is bound to an entry with a deadline that has not passed.
Live(k) ==
    k \in DOMAIN store /\ store[k].expiration # None /\ ~Passed(k)
\* C4 as claimed: an entry under k whose deadline has not passed stays, and
\* every GET(k) returns its value, in every step that is not a DEL(k), CLEAR
\* or SET(k), with the purge task and the other connections running.
C4_AsClaimed ==
    [][\A k \in ClientKeys :
          (Live(k) /\ ~Writes(k)) =>
              /\ Kept(k)
              /\ GetReturns(k) => last'.ret = RetSome(store[k].value)]_vars
\* C4, amended: the deadline of a SET with expiry is the clock at the start
\* of the call plus the duration; an entry under k whose deadline has not
\* passed and which no purge pass or GET has on record as expired (from the
\* entry it replaced) stays, is not put on record, and every GET(k) returns
\* its value, in every step that is not a DEL(k), CLEAR or SET(k).
C4_LiveUntilDeadline ==
    [][/\ \A t \in Clients :
             (pc[t] = "idle" /\ pc'[t] = "set_lock") =>
                 \/ entry'[t].expiration = None
                 \/ \E d \in Durations : entry'[t].expiration = Some(now + d)
       /\ \A k \in ClientKeys :
             (Live(k) /\ ~PendingRemoval(k) /\ ~Writes(k)) =>
                 /\ Kept(k)
                 /\ ~PendingRemoval(k)'
                 /\ GetReturns(k) => last'.ret = RetSome(store[k].value)]_vars
\* A GET has just returned the value of an entry at the very instant of its
\* deadline, one tick after the clock started.
C4_Witness ==
    \E k \in ClientKeys :
        /\ Live(k)
        /\ now = 1
        /\ store[k].expiration = Some(now)
        /\ last = [cmd |-> "get", key |-> k, ret |-> RetSome(store[k].value)]

\* C5: a binding appears or changes only in the step in which a SET(k)
\* inserts, and is then the whole (value, expiration) pair that call built;
\* what GET and purge decide under the read guard depends on the deadline of
\* the pair bound at that moment: a GET returns the bound value when that
\* deadline has not passed, and purge records only keys whose bound deadline
\* has passed.
C5_SetReplacesPair ==
    [][/\ \A k \in Keys :
             (k \in DOMAIN store' /\ (k \notin DOMAIN store \/ store'[k] # store[k])) =>
                 \E t \in Clients :
                     /\ pc[t] = "set_lock" /\ pc'[t] = "idle" /\ key[t] = k
                     /\ store'[k] = entry[t]
       /\ \A t \in Clients :
             (pc[t] = "set_lock" /\ pc'[t] = "idle") =>
                 (key[t] \in DOMAIN store' /\ store'[key[t]] = entry[t])
       /\ \A t \in Clients :
             (pc[t] = "get_read" /\ pc'[t] # "get_read"
                  /\ key[t] \in DOMAIN store /\ ~Passed(key[t])) =>
                 last' = [cmd |-> "get", key |-> key[t],
                          ret |-> RetSome(store[key[t]].value)]
       /\ (ppc = "purge_walk" /\ ppc' = "purge_wlock") =>
             \A k \in SeqToSet(expired_keys') : k \in DOMAIN store /\ Passed(k)]_vars
\* A SET by the second connection has just bound a key to its own value and
\* a deadline that has not passed, after the clock has moved.
C5_Witness ==
    \E k \in ClientKeys :
        /\ last = [cmd |-> "set", key |-> k, ret |-> RetUnit]
        /\ k \in DOMAIN store
        /\ store[k] = EntryNew(ValueOf["c2"], Some(now))
        /\ now = 1

\* C6: DEL(k) returns success exactly when k is bound, and k is then
\* unbound; when k is unbound DEL(k) returns an error and the map stays as it
\* is; the binding of every other key stays as it is.
C6_Del ==
    [][\A k \in ClientKeys :
          (last'.cmd = "remove" /\ last'.key = k) =>
              /\ last'.ret = (IF k \in DOMAIN store THEN RetOk ELSE RetErr)
              /\ k \notin DOMAIN store'
              /\ k \notin DOMAIN store => store' = store
              /\ DOMAIN store' = DOMAIN store \ {k}
              /\ \A j \in DOMAIN store' : store'[j] = store[j]]_vars
\* A DEL has just succeeded: its key is gone and another key is still bound.
C6_Witness ==
    /\ last.cmd = "remove"
    /\ last.ret = RetOk
    /\ last.key \notin DOMAIN store
    /\ CacheLen = 1

\* C7: EXISTS(k) returns true exactly when k is bound, also when the bound
\* entry's deadline has passed, and leaves the map as it is.
C7_Exists ==
    [][\A k \in ClientKeys :
          (last'.cmd = "exists" /\ last'.key = k) =>
              /\ last'.ret = RetBool(k \in DOMAIN store)
              /\ store' = store]_vars
\* An EXISTS has just returned true for a key whose entry is expired and
\* still bound.
C7_Witness ==
    /\ last.cmd = "exists"
    /\ last.ret = RetBool(TRUE)
    /\ last.key \in DOMAIN store
    /\ Passed(last.key)

\* C8: every key a purge pass records was bound to an expired entry when the
\* pass inspected it under the read guard; the removal phase unbinds recorded
\* keys only and leaves every other binding as it is; no other step of purge
\* changes the map.
C8_PurgeRemovesOnlyRecorded ==
    [][/\ (ppc = "purge_walk" /\ ppc' = "purge_wlock") =>
             /\ \A k \in SeqToSet(expired_keys') : k \in DOMAIN store /\ Passed(k)
             /\ store' = store
       /\ (ppc = "purge_wlock" /\ ppc' # "purge_wlock") =>
             /\ DOMAIN store' = DOMAIN store \ SeqToSet(expired_keys)
             /\ \A j \in DOMAIN store' : store'[j] = store[j]
       /\ (ppc' # ppc /\ ppc # "purge_wlock") => store' = store]_vars
\* A purge pass has recorded an expired key and stands before the write
\* guard while a key that is not expired is bound as well.
C8_Witness ==
    /\ ppc = "purge_wlock"
    /\ expired_keys # <<>>
    /\ \E k \in DOMAIN store : ~Passed(k)
    /\ \E k \in DOMAIN store : Passed(k)

\* A call to purge that finds the map empty under the read guard returns at
\* once and leaves the map as it is.
EmptyReturnsAtOnce ==
    (ppc = "purge_draw" /\ ppc' # ppc /\ store = EmptyMap) =>
        (ppc' = "idle" /\ store' = store)
\* Every call to purge returns, provided the lock is free again and again.
PurgeReturns ==
    ([]<>(readers = {})) => ((ppc # "idle") ~> (ppc = "idle"))
\* C9 as claimed: every call to purge returns, for every sample size and
\* threshold; each pass after which the loop continues has itself removed at
\* least one key from the map; purge on an empty map returns at once and
\* changes nothing.
C9_AsClaimed ==
    /\ PurgeReturns
    /\ [][/\ (ppc = "purge_wlock" /\ ppc' = "purge_lock") => CacheLen' < CacheLen
          /\ EmptyReturnsAtOnce]_vars
\* C9, amended: while no other task inserts entries, every call to purge
\* returns, for every sample size and threshold: each pass after which the
\* loop continues has recorded at least one expired key, none of the recorded
\* keys is bound after the pass (the pass or a DEL, GET or CLEAR that came
\* first has removed it), and the map is smaller than when the pass sampled
\* it; purge on an empty map returns at once and changes nothing.
C9_PurgeTerminates ==
    /\ PurgeReturns
    /\ [][/\ (ppc = "purge_wlock" /\ ppc' = "purge_lock") =>
                /\ gone >= 1
                /\ Len(expired_keys) = gone
                /\ SeqToSet(expired_keys) \cap DOMAIN store' = {}
                /\ CacheLen' <= total - gone
          /\ EmptyReturnsAtOnce]_vars
\* A pass has ended with the loop continuing: the map holds fewer entries than
\* the three the pass sampled from, and purge stands before its next pass.
C9_Witness ==
    /\ ppc = "purge_lock"
    /\ total = 3
    /\ CacheLen < total

\* The keys bound to entries whose deadline has passed.
ExpiredNow == {k \in DOMAIN store : Passed(k)}
\* C10: with no concurrent operation and a map of at most sample-size
\* entries, a pass of purge examines every entry: it records exactly the keys
\* whose entries are expired at the walk, its removal phase unbinds exactly
\* the recorded keys and leaves the other bindings as they are, and LEN is
\* then the number of entries that were not expired at the walk; a call
\* returns only from the removal phase of a pass or on finding the map empty.
C10_PurgeSmallMap ==
    [][/\ (ppc = "purge_walk" /\ total <= sample /\ ppc' # ppc) =>
             /\ ppc' = "purge_wlock"
             /\ psample = CacheLen
             /\ SeqToSet(expired_keys') = ExpiredNow
             /\ gone' = Cardinality(ExpiredNow)
             /\ store' = store
       /\ (ppc = "purge_wlock" /\ total <= sample /\ ppc' # ppc) =>
             /\ DOMAIN store' = DOMAIN store \ SeqToSet(expired_keys)
             /\ \A j \in DOMAIN store' : store'[j] = store[j]
             /\ CacheLen' = total - gone
       /\ (ppc # "idle" /\ ppc' = "idle") =>
             \/ ppc = "purge_wlock"
             \/ ppc = "purge_draw" /\ store = EmptyMap /\ store' = store]_vars
\* A pass over a two-entry map, all of it sampled, has removed the expired
\* entry and kept the one that is not expired; purge stands before its next
\* pass.
C10_Witness ==
    /\ ppc = "purge_lock"
    /\ total = 2
    /\ sample >= total
    /\ CacheLen = 1
    /\ ExpiredNow = {}

\* C11: with the background task running and no further SETs, every entry
\* whose deadline has passed is eventually removed, whatever the sample size
\* and also when the map holds more entries than the sample size (from some
\* point on no bound entry is expired, so LEN is the number of non-expired
\* entries), and no entry whose deadline has not passed is removed.
C11_MonitorRemovesExpired ==
    /\ <>[](ExpiredNow = {})
    /\ [][\A k \in DOMAIN store : ~Passed(k) => k \in DOMAIN store']_vars

\* A step that handles the first request r of a new connection and answers it.
Handles(r) == sent' = <<r>> /\ now' = now /\ conn' = "open"
IsSet(r) == to_ascii_lowercase(r[1]) = <<"s", "e", "t">>
PlusOK == <<"+", "O", "K">> \o CRLF
\* C12: a SET with a format tag and an amount that is a number stores the
\* entry with deadline now + amount seconds when the tag is EX in any letter
\* case and now + amount milliseconds otherwise (PX in any letter case, and
\* the raw-milliseconds reading of any other tag).
C12_ExpiryTagAnyCase ==
    [][\A r \in HandlerRequests :
          (Handles(r) /\ IsSet(r) /\ Len(r) = 5 /\ parse_u64(r[5]).ok)
          => /\ written' = <<PlusOK>>
             /\ r[2] \in DOMAIN store'
             /\ store'[r[2]].value = r[3]
             /\ store'[r[2]].expiration =
                   Some(now + (IF to_ascii_lowercase(r[4]) = <<"e", "x">>
                               THEN 1000 * parse_u64(r[5]).int
                               ELSE parse_u64(r[5]).int))]_vars

ErrorFrame(msg) == <<"-">> \o msg \o CRLF
\* C13: a SET whose number of arguments is neither two nor four (none, one,
\* three, five) is answered with Error "SET requires two or four arguments"
\* and leaves the map as it was.
C13_SetTwoOrFourArguments ==
    [][\A r \in HandlerRequests :
          (sent' = <<r>> /\ now' = now /\ IsSet(r) /\ Len(r) - 1 \notin {2, 4})
          => /\ conn' = "open"
             /\ written' = <<ErrorFrame(Text("SET requires two or four arguments"))>>
             /\ store' = store]_vars

\* C14: a misused command is answered and the connection goes on serving:
\* when the first request of a connection is a DEL of an absent key, it is
\* answered with an Error frame, the map stays as it was, the connection
\* stays open, and the read that brings the next request answers that
\* request.
C14_MisuseKeepsServing ==
    [][\A r \in Requests :
          (/\ sent = <<DelFoo, r>>
           /\ store = EmptyMap
           /\ buffer = EncodeRequest(DelFoo)
           /\ buffer' = buffer \o EncodeRequest(r))
          => /\ Len(written) = 1 /\ written[1][1] = "-"
             /\ conn = "open" /\ conn' = "open"
             /\ written' = written \o Replay(<<r>>, store)
             /\ store' = handle_request(RequestValue(r), store).store]_vars
\* Handled as the first request of a connection, each misuse alone gets an
\* Error frame and changes nothing.
IsMisuse(r) ==
    LET name == to_ascii_lowercase(r[1])
    IN  \/ name \in {<<"g", "e", "t">>, <<"d", "e", "l">>,
                     <<"e", "x", "i", "s", "t", "s">>} /\ Len(r) = 1
        \/ name = <<"s", "e", "t">> /\ Len(r) < 3
        \/ name = <<"s", "e", "t">> /\ Len(r) = 5 /\ r[5] = <<"-", "1">>
        \/ name = <<"f", "l", "y">>
        \/ name = <<"d", "e", "l">> /\ Len(r) > 1 /\ r[2] \notin DOMAIN store
MisuseAnswered ==
    [][\A r \in HandlerRequests :
          (sent' = <<r>> /\ now' = now /\ IsMisuse(r))
          => /\ conn' = "open"
             /\ Len(written') = 1 /\ written'[1][1] = "-"
             /\ store' = store]_vars

\* The six command names in lower case, and the lower-case form of each name
\* a request may carry.
KnownNames ==
    { <<"p", "i", "n", "g">>, <<"e", "c", "h", "o">>, <<"g", "e", "t">>,
      <<"s", "e", "t">>, <<"d", "e", "l">>, <<"e", "x", "i", "s", "t", "s">> }
LowerName(n) ==
    CASE n \in { <<"P", "I", "N", "G">> } -> <<"p", "i", "n", "g">>
      [] n \in { <<"E", "C", "H", "O">>, <<"E", "c", "H", "o">> } -> <<"e", "c", "h", "o">>
      [] n \in { <<"G", "E", "T">> } -> <<"g", "e", "t">>
      [] n \in { <<"S", "E", "T">>, <<"s", "E", "t">> } -> <<"s", "e", "t">>
      [] n \in { <<"D", "E", "L">> } -> <<"d", "e", "l">>
      [] n \in { <<"E", "X", "I", "S", "T", "S">> } -> <<"e", "x", "i", "s", "t", "s">>
      [] n \in { <<"F", "L", "Y">> } -> <<"f", "l", "y">>
      [] OTHER -> n
\* What the first turn of a connection makes of an outcome of Served.
TurnIs(o) ==
    /\ conn' = (IF o.kind = "ok" THEN "open"
                ELSE IF o.kind = "err" THEN "closed" ELSE "panicked")
    /\ written' = (IF o.kind = "ok" THEN <<o.out>> ELSE <<>>)
    /\ store' = (IF o.kind = "ok" THEN o.store ELSE store)
\* C15: a request whose name is one of the six commands in any letter case
\* has the response and the effect on the map of the same request with the
\* name in lower case, PING answering +PONG; a request with any other name
\* is answered with Error "command not implemented: " followed by the name
\* as sent, and leaves the map as it was.
C15_DispatchAnyCase ==
    [][\A r \in HandlerRequests :
          (sent' = <<r>> /\ now' = now)
          => IF LowerName(r[1]) \in KnownNames
             THEN /\ TurnIs(Served(EncodeRequest(<<LowerName(r[1])>> \o Tail(r)), store))
                  /\ LowerName(r[1]) = <<"p", "i", "n", "g">>
                        => written' = <<<<"+", "P", "O", "N", "G">> \o CRLF>>
             ELSE /\ conn' = "open"
                  /\ written' = <<ErrorFrame(Text("command not implemented: ") \o r[1])>>
                  /\ store' = store]_vars
\* A SET spelled sEt has stored its pair and been answered +OK.
C15_Witness ==
    /\ sent = << <<<<"s", "E", "t">>, Foo, Bar>> >>
    /\ written = <<PlusOK>>
    /\ Foo \in DOMAIN store /\ store[Foo].value = Bar

\* SET foo bar EX 0 and GET foo in the spellings tried.
ZeroSets ==
    { r \in HandlerRequests :
        /\ IsSet(r) /\ Len(r) = 5
        /\ to_ascii_lowercase(r[4]) = <<"e", "x">> /\ r[5] = <<"0">> }
GetFoos ==
    { r \in HandlerRequests :
        to_ascii_lowercase(r[1]) = <<"g", "e", "t">> /\ Len(r) >= 2 }
NullFrame == <<"$", "-", "1">> \o CRLF
\* The request handled next after an accepted SET k v EX 0 is a GET k.
GetAfterZeroSet ==
    /\ sent \in { <<r>> : r \in ZeroSets }
    /\ written = <<PlusOK>>
    /\ sent' \in { <<r>> : r \in GetFoos }
C17_Echo ==
    /\ [][\A r \in HandlerRequests :
            (sent' = <<r>> /\ now' = now /\ LowerName(r[1]) = <<"e", "c", "h", "o">>)
            => /\ store' = store
               /\ IF Len(r) >= 2
                  THEN /\ conn' = "open"
                       /\ written' = <<<<"$">> \o NatToDigits(Len(r[2])) \o CRLF
                                         \o r[2] \o CRLF>>
                  ELSE conn' = "panicked" /\ written' = <<>>]_vars
    /\ [][\A a \in EchoArgs :
            (buffer' = EchoFrame(a) /\ sent' = <<>> /\ now' = now)
            => /\ store' = store
               /\ a[1] # "*" => conn' = "open" /\ written' = <<a>>]_vars
    /\ [](handle_request(Array(<<BulkString(<<"E", "C", "H", "O">>), Array(<<>>)>>), store)
            = HandlerOk(Array(<<>>), store))
\* An ECHO foo has been answered with the bulk string foo.
C17_Witness ==
    /\ sent = << <<<<"E", "c", "H", "o">>, Foo>> >>
    /\ written = << <<"$", "3">> \o CRLF \o Foo \o CRLF >>
    /\ conn = "open"

\* C18: while the bytes read so far are only a prefix of the first message
\* of a connection, read_value hands nothing to the handler: the bytes stay
\* in the buffer, the connection stays open and nothing is written; when the
\* reads have brought the whole message, it is handled and answered.
C18_PartialFrameKept ==
    \A r \in Requests :
        (sent # <<>> /\ sent[1] = r /\ buffer # <<>>)
        => IF Len(buffer) < Len(EncodeRequest(r))
           THEN /\ buffer = SubSeq(EncodeRequest(r), 1, Len(buffer))
                /\ conn = "open"
                /\ written = <<>>
           ELSE Len(buffer) = Len(EncodeRequest(r))
                => /\ buffer = EncodeRequest(r)
                   /\ conn = "open"
                   /\ written = Replay(<<r>>, EmptyMap)

\* C20: when the first bytes of a connection are no well-formed frame (an
\* unknown prefix byte, a bulk string cut short, an array header that is no
\* number), the handler writes one Error frame, closes the connection and
\* leaves the map as it was.
C20_ProtocolErrorAnswered ==
    [][\A b \in MalformedFrames :
          (buffer' = b /\ sent' = <<>> /\ now' = now /\ parse_message(b).kind = "err")
          => /\ conn' = "closed"
             /\ Len(written') = 1 /\ written'[1][1] = "-"
             /\ store' = store]_vars

\* The write clause alone: once a socket write has failed the loop has ended.
WriteErrorEndsLoop == last.cmd = "write_value" => conn = "closed"
\* The decode clause alone: the task never panics.
NeverPanics == conn # "panicked"
\* C19: the loop of a connection ends, and its task does not panic, once
\* read_value has reported end of stream, a socket read or a socket write
\* has failed, a request has failed to decode, or shutdown has been
\* signalled; once the loop has ended no request of the connection is
\* handled any more.
C19_LoopEnds ==
    /\ [](last.cmd \in {"read_value", "shutdown"} => conn = "closed")
    /\ []WriteErrorEndsLoop
    /\ []NeverPanics
    /\ [][(conn = "open" /\ wire = <<>> /\ eof /\ conn' # conn) => conn' = "closed"]_vars
    /\ [][conn # "open" => UNCHANGED <<store, written, conn>>]_vars

\* C21: whenever write_value has returned, every byte of the responses
\* written so far has gone to the socket: none is held back in the
\* connection's buffered writer.
C21_WriteFlushes == InBufWriter(written, <<>>) = <<>>

\* The frame of v and what decoding it should give back.
Frame(v) == encode(v)[1]
RoundTrip(v) == ParseOk(v, Len(Frame(v)))
\* C22: for every value v of kind SimpleString, Error, Integer, BulkString
\* or Null, decoding the frame encode(v) gives v and the length of the frame.
C22_RoundTrip ==
    \A v \in CodecValues :
        (buffer = Frame(v) /\ decoded # NoDecode) => decoded = RoundTrip(v)
\* The kinds for which the round trip does hold: SimpleString, Integer and
\* BulkString.
RoundTripOfStrings ==
    \A v \in CodecValues :
        (buffer = Frame(v) /\ decoded # NoDecode
           /\ v.type \in {"SimpleString", "Integer", "BulkString"})
        => decoded = RoundTrip(v)

\* C23: decoding the frame $-1 CR LF gives the Null value with 5 bytes
\* consumed, in every build: no error, no panic.
C23_NullBulk ==
    (buffer = <<"$", "-", "1">> \o CRLF /\ decoded # NoDecode)
    => decoded = ParseOk(Null, 5)
\* What the code makes of $-1 CR LF: a panic in a debug build, an error in a
\* release build.
NullBulkFails ==
    (buffer = <<"$", "-", "1">> \o CRLF /\ decoded # NoDecode)
    => decoded.kind = (IF build = "debug" THEN "panic" ELSE "err")

\* The frame of a message on the wire, arrays included.
RECURSIVE FrameOf(_)
RECURSIVE FramesOf(_)
FramesOf(items) ==
    IF items = <<>> THEN <<>> ELSE FrameOf(Head(items)) \o FramesOf(Tail(items))
FrameOf(v) ==
    IF v.type = "Array"
    THEN <<"*">> \o NatToDigits(Len(v.items)) \o CRLF \o FramesOf(v.items)
    ELSE encode(v)[1]
\* Complete messages: the strings among CodecValues and three arrays.
Messages ==
    { v \in CodecValues : v.type \in {"SimpleString", "Integer", "BulkString"} }
    \cup { Array(<<BulkString(<<"h", "e", "l", "l", "o">>),
                   BulkString(<<"w", "o", "r", "l", "d">>)>>),
           Array(<<Array(<<Integer(<<"5">>)>>), SimpleString(<<"O", "K">>)>>),
           Array(<<>>) }
\* C24: when the buffer starts with one complete message m (a SimpleString,
\* an Integer, a BulkString, or an array of such, nested arrays included)
\* and goes on with any bytes, decoding gives m, its items in order, and the
\* byte length of m's frame (26 for the array of hello and world).
C24_DecodeLeavesTrailing ==
    /\ \A m \in Messages : \A t \in Trailing :
          (buffer = FrameOf(m) \o t /\ decoded # NoDecode)
          => decoded = ParseOk(m, Len(FrameOf(m)))
    /\ \A t \in Trailing :
          (buffer = FrameOf(Array(<<BulkString(<<"h", "e", "l", "l", "o">>),
                                       BulkString(<<"w", "o", "r", "l", "d">>)>>)) \o t /\ decoded # NoDecode)
          => decoded.kind = "ok" /\ decoded.len = 26
\* The nested array has been decoded from a buffer that goes on after it.
C24_Witness ==
    /\ buffer = FrameOf(Array(<<Array(<<Integer(<<"5">>)>>), SimpleString(<<"O", "K">>)>>))
                  \o <<"$", "2">> \o CRLF \o <<"h">>
    /\ decoded.kind = "ok"
    /\ decoded.len = 17

\* Broken buffers by what is wrong with them: a length that is no number
\* (alone or in an item of an array), a bulk string longer than the bytes
\* there are (alone or in an item of an array).
MalformedLength ==
    { <<"$", "x">> \o CRLF, <<"*", "x">> \o CRLF,
      <<"*", "1">> \o CRLF \o <<"$", "x">> \o CRLF }
Incomplete ==
    { <<"$", "3">> \o CRLF \o <<"f", "o">>,
      <<"*", "1">> \o CRLF \o <<"$", "3">> \o CRLF \o <<"f", "o">> }
\* An incomplete bulk string is reported unlike every malformed length.
IncompleteToldApart ==
    (buffer \in Incomplete /\ decoded # NoDecode)
    => \A b \in MalformedLength : parse_message(b) # decoded
\* C25: decoding a buffer whose first byte is none of + : * $ fails with
\* "unrecognized message type"; a bulk or array length that is no number
\* fails with "malformed length"; a bulk string whose declared length
\* exceeds the bytes there are is reported as incomplete, unlike both.
C25_FailuresClassified ==
    decoded # NoDecode
    => /\ buffer[1] \notin {"+", ":", "*", "$"}
            => decoded = ParseErr("unrecognized message type")
       /\ buffer \in MalformedLength => decoded = ParseErr("malformed length")
       /\ IncompleteToldApart

\* The deadline a set_with_expiry of count n and format f (None for a bare
\* count) should give, read off the claim.
PxTags == { <<"P", "X">>, <<"p", "x">>, <<"P", "x">> }
ExTags == { <<"E", "X">>, <<"e", "x">>, <<"e", "X">> }
ClaimedExpiry(n, f) ==
    IF f = None THEN <<now + n>>
    ELSE IF f[1] \in PxTags THEN <<now + n>>
    ELSE IF f[1] \in ExTags THEN <<now + 1000 * n>>
    ELSE <<>>
C27_MonitorExits ==
    /\ []((ppc = "exited" => shutdown) /\ ppc # "panicked")
    /\ (shutdown ~> [](ppc = "exited"))
\* The task has left its loop after the signal, with entries still in the map.
C27_Witness == shutdown /\ ppc = "exited" /\ DOMAIN store # {}


\* C28: a connection that fails (its loop ends on an error, or its task
\* panics) holds no guard of the keyspace lock, and the step in which it fails
\* changes neither the map, nor the lock, nor where any other connection
\* stands in its own command; the other connection's GET still returns the
\* value of a live entry and nothing else.
FailedHoldNoGuard == \A t \in Clients : pc[t] \in Failures => t \notin readers
FailureTouchesNoOther ==
    \A t \in Clients :
        (pc[t] \notin Failures /\ pc'[t] \in Failures) =>
            /\ store' = store
            /\ readers' = readers
            /\ \A u \in Clients \ {t} :
                   pc'[u] = pc[u] /\ key'[u] = key[u] /\ entry'[u] = entry[u]
GetAnsweredFromMap ==
    (last'.cmd = "get" /\ last'.ret.kind = "some") =>
        /\ last'.key \in DOMAIN store
        /\ store[last'.key].value = last'.ret.val
ExpiredEntries(m) == {k \in DOMAIN m : is_expired(m[k].expiration)}
RECURSIVE GoneOver(_, _)
GoneOver(m, Is) ==
    IF Is = {} THEN 0
    ELSE LET I == CHOOSE J \in Is : TRUE
         IN  Len(Marked(m, WalkKeys(m, I))) + GoneOver(m, Is \ {I})
C29_ExpectedGone ==
    (/\ ppc = "purge_draw"
     /\ DOMAIN store # {}
     /\ Cardinality(ExpiredEntries(store)) * threshold[2] >= CacheLen * threshold[1])
    => GoneOver(store, IndexSets(Min(sample, CacheLen), CacheLen)) * threshold[2]
         >= Min(sample, CacheLen) * threshold[1]
              * Cardinality(IndexSets(Min(sample, CacheLen), CacheLen))


\* C30: in a pass of purge the entry examined for a drawn index i is the
\* i-th entry (0-based) of the map's iteration order, for every index set
\* the draw can give.
C30_WalkExaminesDrawn ==
    ppc = "purge_walk" =>
        /\ ~WalkPanics(store, indices)
        /\ WalkKeys(store, indices) =
               [i \in 1..Cardinality(indices) |-> MapIter(store)[Ascending(indices)[i] + 1]]


\* C31: a pass of purge fetches exactly s = min(sample, N) entries at
\* pairwise distinct positions inside the map (the walk never runs past the
\* last entry), marks at most s keys, and its removal phase takes at most s
\* keys out of the map.
WalkInsideMap ==
    ppc = "purge_walk" =>
        /\ psample = Min(sample, CacheLen)
        /\ Len(WalkPositions(indices)) = psample
        /\ \A i \in DOMAIN WalkPositions(indices) :
               /\ WalkPositions(indices)[i] < CacheLen
               /\ \A j \in DOMAIN WalkPositions(indices) :
                      i # j => WalkPositions(indices)[i] # WalkPositions(indices)[j]
MarksAtMostSample ==
    ppc = "purge_wlock" => (gone <= psample /\ Len(expired_keys) = gone)
RemovesAtMostSample ==
    (ppc = "purge_wlock" /\ ppc' # "purge_wlock") =>
        Cardinality(DOMAIN store \ DOMAIN store') <= psample
C31_BoundedPass ==
    /\ [](WalkInsideMap /\ MarksAtMostSample /\ ppc # "panicked")
    /\ [][RemovesAtMostSample]_vars
\* A pass with a sample of two has marked both entries it fetched.
C31_Witness == ppc = "purge_wlock" /\ psample = 2 /\ gone = 2


\* C32: when the removal phase of a pass is over, purge starts another pass
\* if and only if the number g of expired entries the pass found is at least
\* s times the threshold, and otherwise returns; a pass that finds the map
\* empty at its start returns at once.
AnotherPassIffThreshold ==
    (ppc = "purge_wlock" /\ ppc' # "purge_wlock") =>
        IF gone * threshold[2] >= psample * threshold[1]
        THEN ppc' = "purge_lock"
        ELSE ppc' = "idle"
EmptyMapEndsPurge ==
    (ppc = "purge_draw" /\ ppc' # "purge_draw" /\ DOMAIN store = {}) =>
        (ppc' = "idle" /\ store' = store)
PurgeRemovesMarked ==
    (ppc = "purge_wlock" /\ ppc' # "purge_wlock") =>
        \A i \in DOMAIN expired_keys : expired_keys[i] \notin DOMAIN store'
GetOfAbsentIsNone ==
    (last'.cmd = "get" /\ last'.key \notin DOMAIN store') => last'.ret = RetNone
C33_PurgeSetRace == [][PurgeRemovesMarked /\ GetOfAbsentIsNone]_vars
\* Purge has marked a key and dropped the read guard, a SET has since stored
\* an entry for that key whose deadline is not reached, and the write guard
\* is free for the removal phase.
C33_Witness ==
    /\ ppc = "purge_wlock"
    /\ readers = {}
    /\ \E i \in DOMAIN expired_keys :
           /\ expired_keys[i] \in DOMAIN store
           /\ store[expired_keys[i]].expiration # None
           /\ store[expired_keys[i]].expiration[1] >= now


\* C34: EXISTS takes only the read guard, so a connection that is between two
\* commands can have its EXISTS answered while another task is inside the
\* keyspace lock as a reader.
C34_ExistsSharesLock ==
    \A t \in Clients :
        (pc[t] = "idle" /\ readers # {}) => ENABLED Exists(t)


\* C35: a connection task that is between two Cache calls (reading from or
\* writing to its socket, or waiting for shutdown) or that is waiting for the
\* write guard holds no guard of the keyspace, and neither does the purge
\* task while it waits for the next tick, waits for the write guard or has
\* left its loop; the holders of the read guard are tasks inside a read
\* section.
C35_NoGuardAtSuspension ==
    /\ \A t \in Clients : t \in readers <=> pc[t] = "get_read"
    /\ PurgeTask \in readers <=> ppc \in {"purge_draw", "purge_walk"}
    /\ readers \subseteq Clients \cup {PurgeTask}
\* A GET has just returned a value to its connection while the purge task
\* is inside a pass as a reader.
C35_Witness ==
    /\ last.cmd = "get" /\ last.ret.kind = "some"
    /\ \A t \in Clients : pc[t] = "idle"
    /\ readers = {PurgeTask}


\* C36: a GET that saw an expired entry and dropped the read guard removes
\* whatever entry its key holds once it has the write guard, and returns
\* none: an entry stored in between by a SET, its deadline not reached, is
\* removed as well.
C36_LazyRemovalUnconditional ==
    [][\A t \in Clients :
           (pc[t] = "get_wlock" /\ pc'[t] # "get_wlock") =>
               /\ key[t] \notin DOMAIN store'
               /\ last' = [cmd |-> "get", key |-> key[t], ret |-> RetNone]]_vars
\* A GET waits for the write guard, the lock is free, and its key holds an
\* entry stored since, whose deadline is not reached.
C36_Witness ==
    \E t \in Clients :
        /\ pc[t] = "get_wlock"
        /\ readers = {}
        /\ key[t] \in DOMAIN store
        /\ store[key[t]].expiration # None
        /\ store[key[t]].expiration[1] >= now


\* C37: a task that asks for the write guard does not hold the read guard,
\* and under a fair lock every task that waits for a guard gets it and
\* finishes its operation: a SET, a GET and a pass of purge that have asked
\* for a guard do not wait for ever.
WaitsWithoutReadGuard ==
    /\ \A t \in LockClients : pc[t] \in {"set_lock", "get_wlock"} => t \notin readers
    /\ ppc \in {"purge_lock", "purge_wlock"} => PurgeTask \notin readers
C37_NoDeadlock ==
    /\ []WaitsWithoutReadGuard
    /\ \A t \in LockClients : (pc[t] # "idle") ~> (pc[t] = "idle")
    /\ (ppc = "purge_lock") ~> (ppc # "purge_lock")
    /\ (ppc = "purge_wlock") ~> (ppc # "purge_wlock")
\* The connection waits for the write guard in a GET that saw an expired
\* entry while the purge task is inside as a reader.
C37_Witness == pc["c1"] = "get_wlock" /\ readers = {PurgeTask}


\* C38: when a pass of purge is about to draw its indices from a map that is
\* not empty, every position of the map, the last one included, is fetched
\* under at least one of the index sets the draw can give.
C38_EveryPositionInReach ==
    (ppc = "purge_draw" /\ DOMAIN store # {}) =>
        \A p \in 0..(CacheLen - 1) :
            \E I \in IndexSets(Min(sample, CacheLen), CacheLen) :
                \E i \in DOMAIN WalkPositions(I) : WalkPositions(I)[i] = p


\* C39: a first request that decodes to a value other than an array ends the
\* connection loop with an error; one that decodes to an empty array, or to
\* an array whose first item is no bulk string, makes the task panic; in both
\* cases nothing is written and the map stays as it was.
ShapeTurn(b) == buffer' = b /\ now' = now
C39_RequestShape ==
    [][/\ \A b \in NonArrayFrames :
              ShapeTurn(b) => (conn' = "closed" /\ written' = <<>> /\ store' = store)
       /\ \A b \in BadArrayFrames :
              ShapeTurn(b) => (conn' = "panicked" /\ written' = <<>> /\ store' = store)]_vars
\* The task has panicked on an empty array while the map holds foo.
C39_Witness ==
    /\ Foo \in DOMAIN store
    /\ conn = "panicked"
    /\ buffer = <<"*", "0">> \o CRLF


\* C40: the frame written in answer to a GET of a key that holds a live
\* entry decodes to a SimpleString whose text is the stored value and whose
\* length is the whole frame, whatever bytes the value holds.
C40_GetFrameDecodes ==
    [][\A r \in GetFoos :
          (/\ sent' = <<r>> /\ now' = now
           /\ r[2] \in DOMAIN store
           /\ (store[r[2]].expiration = None \/ store[r[2]].expiration[1] >= now))
          => /\ Len(written') = 1
             /\ parse_message(written'[1])
                   = ParseOk(SimpleString(store[r[2]].value), Len(written'[1]))]_vars

====
